---------------------------- MODULE Spec2Model ----------------------------
(***************************************************************************)
(* The relay server of letschat (src/server/index.js): the room registry   *)
(* with its eviction sweeper, the room-creation endpoint, the socket.io    *)
(* admission middleware and the connection handler with its two            *)
(* suspension points (the awaits of fetchSockets).                         *)
(*                                                                         *)
(* A handler of the event loop runs to completion, so each synchronous     *)
(* stretch of code is one action.  The connection handler is an async      *)
(* function: each await ends a stretch, and what the event loop runs       *)
(* before the continuation is not fixed by the code, so every other        *)
(* handler may run in between.  The wall clock advances independently of   *)
(* the event loop.                                                         *)
(***************************************************************************)
EXTENDS Integers, Sequences, FiniteSets, TLC

(***************************************************************************)
(* Bounds of the model.                                                    *)
(***************************************************************************)
MaxConns == 3      \* transport connections (socket ids 1..MaxConns)
MaxRoomIds == 2    \* size of the space generateId draws from
MaxMsgs == 2       \* msg packets followed on the wire
MaxTicks == 2      \* advances of the wall clock

(***************************************************************************)
(* Program constants.                                                      *)
(***************************************************************************)
InactivityLimit == 3600000   \* ms, the sweeper's threshold
MaxServerHashLen == 128
MaxUsernameLen == 256
TagLen == 32                 \* bytes of an HMAC-SHA256 digest

(***************************************************************************)
(* JavaScript values that reach the server as request fields.  A string    *)
(* is a sequence of one-character strings.                                 *)
(***************************************************************************)
JsUndefined == [t |-> "undefined", s |-> <<>>]
JsNumber == [t |-> "number", s |-> <<>>]      \* a truthy value that is no string
JsStr(s) == [t |-> "string", s |-> s]

\* !v : undefined and the empty string are falsy.
Falsy(v) == v.t = "undefined" \/ (v.t = "string" /\ v.s = <<>>)

Repeat(c, n) == [i \in 1..n |-> c]

(***************************************************************************)
(* Hex encoding and decoding.                                              *)
(***************************************************************************)
HexDigits == <<"0","1","2","3","4","5","6","7","8","9","a","b","c","d","e","f">>

\* The value of a hex digit of either case; -1 for any other character.
HexVal(c) ==
    CASE c = "0" -> 0  [] c = "1" -> 1  [] c = "2" -> 2  [] c = "3" -> 3
      [] c = "4" -> 4  [] c = "5" -> 5  [] c = "6" -> 6  [] c = "7" -> 7
      [] c = "8" -> 8  [] c = "9" -> 9
      [] c \in {"a", "A"} -> 10  [] c \in {"b", "B"} -> 11
      [] c \in {"c", "C"} -> 12  [] c \in {"d", "D"} -> 13
      [] c \in {"e", "E"} -> 14  [] c \in {"f", "F"} -> 15
      [] OTHER -> -1

IsHex(c) == HexVal(c) >= 0

\* Buffer.from(s, 'hex'): two digits per byte, stopping at the first pair
\* that is not two hex digits; a trailing single character is dropped.
RECURSIVE HexDecodeFrom(_, _)
HexDecodeFrom(s, i) ==
    IF i + 1 > Len(s) \/ ~IsHex(s[i]) \/ ~IsHex(s[i + 1])
    THEN <<>>
    ELSE <<16 * HexVal(s[i]) + HexVal(s[i + 1])>> \o HexDecodeFrom(s, i + 2)

HexDecode(s) == HexDecodeFrom(s, 1)

\* buf2hex of the client: two lower-case digits per byte.
RECURSIVE buf2hex(_)
buf2hex(b) ==
    IF b = <<>>
    THEN <<>>
    ELSE <<HexDigits[(b[1] \div 16) + 1], HexDigits[(b[1] % 16) + 1]>> \o buf2hex(Tail(b))

(***************************************************************************)
(* HMAC-SHA256, abstracted: a TagLen-byte tag that is a collision-free     *)
(* function of the purpose string and of the key as HMAC reads it (a key   *)
(* shorter than the block is padded with zero bytes, so trailing zero      *)
(* bytes of a key do not matter).  The tag tells apart keys that differ in *)
(* length or within their first TagLen - 2 bytes; the keys of the model    *)
(* are chosen so.                                                          *)
(***************************************************************************)
RECURSIVE StripZeros(_)
StripZeros(k) ==
    IF k # <<>> /\ k[Len(k)] = 0 THEN StripZeros(SubSeq(k, 1, Len(k) - 1)) ELSE k

PurposeCode(p) == IF p = "server_verify_purpose" THEN 1 ELSE 2

Hmac(key, purpose) ==
    LET nk == StripZeros(key)
        head == SubSeq(nk, 1, IF Len(nk) < TagLen - 2 THEN Len(nk) ELSE TagLen - 2)
    IN  <<PurposeCode(purpose), Len(nk)>> \o head \o Repeat(255, TagLen - 2 - Len(head))

(***************************************************************************)
(* Security.verify                                                         *)
(***************************************************************************)
TokenOk(clientToken) == ~(Falsy(clientToken) \/ clientToken.t # "string")

Verify_NoCompare(clientToken, storedServerHash) == TokenOk(clientToken)

Verify(clientToken, storedServerHash) ==
    /\ TokenOk(clientToken)
    /\ LET expectedHash == Hmac(HexDecode(clientToken.s), "server_verify_purpose")
           actualHash == HexDecode(storedServerHash.s)
       IN  Len(expectedHash) = Len(actualHash) /\ expectedHash = actualHash

\* The serverHash a client derives from its token (S = HMAC(T, purpose)).
ServerHashOf(token) == JsStr(buf2hex(Hmac(HexDecode(token.s), "server_verify_purpose")))

\* encoder.encode of a string of hex digits: the ASCII code of each.
encode(str) ==
    [i \in 1..Len(str) |->
        IF HexVal(str[i]) < 10 THEN 48 + HexVal(str[i])
        ELSE IF str[i] \in {"A", "B", "C", "D", "E", "F"} THEN 55 + HexVal(str[i])
        ELSE 87 + HexVal(str[i])]

\* CryptoHelper.deriveAuthKeys: T = HMAC(K, "auth_token_purpose") and
\* S = HMAC(T, "server_verify_purpose"), both in hex.
deriveAuthKeys(rawKey) ==
    LET tBuf == Hmac(encode(rawKey), "auth_token_purpose")
        sBuf == Hmac(tBuf, "server_verify_purpose")
    IN  [token |-> JsStr(buf2hex(tBuf)), serverHash |-> JsStr(buf2hex(sBuf))]


(***************************************************************************)
(* Inputs.                                                                 *)
(***************************************************************************)
ConnIds == 1..MaxConns
RoomIds == 1..MaxRoomIds          \* the values generateId can return

TokA == JsStr(<<"a", "1">>)
TokB == JsStr(<<"b", "2">>)
Tokens == {TokA, TokB, JsUndefined}

GoodName == JsStr(<<"n">>)
LongName == JsStr(Repeat("x", MaxUsernameLen + 1))
Usernames == {GoodName, JsUndefined, JsNumber, LongName}

\* A supplied clientId; "" stands for a handshake without one.
ClientIdInputs == {"", "c1"}

\* A generator that returns the same id every time.
randomUUID_Same(s) == "uuid1"

\* crypto.randomUUID(): a fresh id, one per socket.
randomUUID(s) == <<"uuid1", "uuid2", "uuid3", "uuid4", "uuid5">>[s]

ServerHashInputs ==
    { ServerHashOf(TokA), ServerHashOf(TokB),
      JsUndefined, JsNumber, JsStr(<<>>),
      JsStr(Repeat("0", MaxServerHashLen)),
      JsStr(Repeat("0", MaxServerHashLen + 1)) }

\* The raw keys of two rooms.
RawKeys == {<<"0", "a">>, <<"0", "b">>}

ToUpper(c) ==
    CASE c = "a" -> "A" [] c = "b" -> "B" [] c = "c" -> "C"
      [] c = "d" -> "D" [] c = "e" -> "E" [] c = "f" -> "F"
      [] OTHER -> c

\* What a client can send in place of the token t: t with its letters in
\* upper case, with a character altered, cut short, and with characters
\* appended (a character that is no hex digit, one hex digit, a zero byte).
TokenMutations(t) ==
    { JsStr([i \in 1..Len(t.s) |-> ToUpper(t.s[i])]),
      JsStr([t.s EXCEPT ![5] = IF t.s[5] = "4" THEN "5" ELSE "4"]),
      JsStr(SubSeq(t.s, 1, Len(t.s) - 2)),
      JsStr(t.s \o <<"z">>),
      JsStr(t.s \o <<"0">>),
      JsStr(t.s \o <<"0", "0">>) }

\* The token field of a handshake: anything.
TokenInputs ==
    UNION { {deriveAuthKeys(K).token} \cup TokenMutations(deriveAuthKeys(K).token) :
            K \in RawKeys }
      \cup {JsUndefined, JsNumber, JsStr(<<>>), JsStr(<<"z", "z">>)}

\* The serverHash of a creation request: what deriveAuthKeys gives, and
\* strings another client can send (the tag of the empty key, one byte,
\* an odd number of digits).
StoredHashInputs ==
    { deriveAuthKeys(K).serverHash : K \in RawKeys }
      \cup { ServerHashOf(JsStr(<<>>)), JsStr(<<"0", "0">>),
             JsStr(Append(deriveAuthKeys(<<"0", "a">>).serverHash.s, "0")) }

\* Strings the creation endpoint accepts that do not decode to a tag: one
\* byte, no hex digit at all, and the longest string accepted (64 bytes).
DudHashInputs ==
    { JsStr(<<"0", "0">>), JsStr(<<"z", "z">>), JsStr(Repeat("0", MaxServerHashLen)) }

\* A msg payload as a client builds it: senderId 0 stands for no such field.
\* Socket 1 may name itself, every other socket may name socket 1.
Payloads == [ciphertext : {"c"}, iv : {"i"}, senderId : {0, 1}]
NoPayload == [ciphertext |-> "", iv |-> "", senderId |-> 0]

(***************************************************************************)
(* State.                                                                  *)
(***************************************************************************)
VARIABLES
    rooms,      \* the Map rooms: chatId -> [serverHash, createdAt, lastActive]
    now,        \* Date.now()
    conn,       \* per socket: the handshake, what the middleware bound, the
                \* handler's position and its locals
    members,    \* the adapter's rooms: chatId -> the socket ids that joined it,
                \* in the order they joined (a Set iterates in insertion order)
    sent,       \* what the handler that ran last wrote to sockets, in order:
                \* <<[to |-> socket id, e |-> event], ...>>
    http,       \* the HTTP response the handler that ran last sent, if any
    refused,    \* the connection the handler that ran last refused, if any
    wire,       \* the msg packets in the order the server received them, and
                \* the msg events written to each socket, in the order written;
                \* kept only where the order of messages is at stake
    told        \* per socket, the ids of the sockets that the room_users and
                \* user_joined events written to it have named; kept only
                \* where what a client has been told is at stake

vars == <<rooms, now, conn, members, sent, http, refused, wire, told>>

NoConn ==
    [pc |-> "new", connected |-> FALSE,
     chatId |-> 0, token |-> JsUndefined, encryptedUsername |-> JsUndefined,
     clientId |-> "", isNewSession |-> FALSE, scan |-> <<>>]

NoResponse == [req |-> JsUndefined, status |-> 0, body |-> "", chatId |-> 0]

NoRefusal ==
    [id |-> 0, chatId |-> 0, token |-> JsUndefined,
     encryptedUsername |-> JsUndefined, clientId |-> "", err |-> ""]

\* What a handler wrote; the next handler to run starts afresh.
Outputs(packets, response, refusal) ==
    /\ sent' = packets
    /\ http' = response
    /\ refused' = refusal

Quiet == Outputs(<<>>, NoResponse, NoRefusal)

NoWire == [arrived |-> <<>>, inbox |-> [s \in ConnIds |-> <<>>]]

NoneTold == [s \in ConnIds |-> {}]

Init ==
    /\ rooms = << >>
    /\ now = 0
    /\ conn = [s \in ConnIds |-> NoConn]
    /\ members = [r \in RoomIds |-> <<>>]
    /\ sent = <<>>
    /\ http = NoResponse
    /\ refused = NoRefusal
    /\ wire = NoWire
    /\ told = NoneTold

(***************************************************************************)
(* The wall clock.  It advances by a millisecond or by the inactivity      *)
(* limit; the number of advances is bounded.                               *)
(***************************************************************************)
Ticks(t) == (t \div InactivityLimit) + (t % InactivityLimit)
CanTick == Ticks(now) < MaxTicks

Tick ==
    /\ CanTick
    /\ \E d \in {1, InactivityLimit} : now' = now + d
    /\ Quiet
    /\ UNCHANGED <<rooms, conn, members, wire, told>>

(***************************************************************************)
(* The eviction sweeper (setInterval callback).                            *)
(***************************************************************************)
Expired_AtLimit(room, t) == t - room.lastActive >= InactivityLimit

Expired(room, t) == t - room.lastActive > InactivityLimit

\* A pass that deletes one expired room and stops.
Swept_OneAtATime(r, t) ==
    LET expired == {i \in DOMAIN r : Expired(r[i], t)}
        first == {i \in expired : \A j \in expired : i <= j}
    IN  [id \in DOMAIN r \ first |-> r[id]]

\* The loop of the sweeper over the registry r, with t the clock reading
\* taken before it: the rooms it leaves.
Swept(r, t) == [id \in {i \in DOMAIN r : ~Expired(r[i], t)} |-> r[id]]

\* A sweeper that deletes nothing.
Sweep_Idle ==
    /\ Quiet
    /\ UNCHANGED <<rooms, now, conn, members, wire, told>>

\* A sweeper that also empties the broadcast set of a room it deletes.
Sweep_Closing ==
    /\ rooms' = [id \in {i \in DOMAIN rooms : ~Expired(rooms[i], now)} |-> rooms[id]]
    /\ members' = [r \in RoomIds |->
                      IF r \in DOMAIN rooms /\ Expired(rooms[r], now)
                      THEN <<>> ELSE members[r]]
    /\ Quiet
    /\ UNCHANGED <<now, conn, wire, told>>

Sweep ==
    /\ rooms' = Swept(rooms, now)
    /\ Quiet
    /\ UNCHANGED <<now, conn, members, wire, told>>

(***************************************************************************)
(* POST /api/room/create                                                   *)
(***************************************************************************)
ValidServerHash_NoLength(serverHash) ==
    ~(Falsy(serverHash) \/ serverHash.t # "string")

ValidServerHash(serverHash) ==
    ~(Falsy(serverHash) \/ serverHash.t # "string"
        \/ Len(serverHash.s) > MaxServerHashLen)

Response(req, status, body, chatId) ==
    [req |-> req, status |-> status, body |-> body, chatId |-> chatId]

\* rooms.set(chatId, {serverHash, createdAt: Date.now(), lastActive: Date.now()}):
\* two readings of the clock, d apart.
RoomsSet(chatId, serverHash, d) ==
    [id \in DOMAIN rooms \cup {chatId} |->
        IF id = chatId
        THEN [serverHash |-> serverHash, createdAt |-> now, lastActive |-> now + d]
        ELSE rooms[id]]

CreateRoom_Overwrite(serverHash, chatId, d) ==
    /\ IF ~ValidServerHash(serverHash)
       THEN /\ d = 0
            /\ http' = Response(serverHash, 400, "Invalid params", 0)
            /\ UNCHANGED <<rooms, now>>
       ELSE /\ rooms' = RoomsSet(chatId, serverHash, d)
            /\ now' = now + d
            /\ http' = Response(serverHash, 200, "", chatId)
    /\ sent' = <<>>
    /\ refused' = NoRefusal
    /\ UNCHANGED <<conn, members, wire, told>>

\* A creation that draws again when the id is taken.
CreateRoom_Retry(serverHash, chatId, d) ==
    /\ IF ~ValidServerHash(serverHash)
       THEN /\ d = 0
            /\ http' = Response(serverHash, 400, "Invalid params", 0)
            /\ UNCHANGED <<rooms, now>>
       ELSE IF RoomIds \subseteq DOMAIN rooms
       THEN /\ d = 0
            /\ http' = Response(serverHash, 400, "Room already exists", 0)
            /\ UNCHANGED <<rooms, now>>
       ELSE LET free == IF chatId \in DOMAIN rooms
                        THEN CHOOSE id \in RoomIds : id \notin DOMAIN rooms
                        ELSE chatId
            IN  /\ rooms' = RoomsSet(free, serverHash, d)
                /\ now' = now + d
                /\ http' = Response(serverHash, 200, "", free)
    /\ sent' = <<>>
    /\ refused' = NoRefusal
    /\ UNCHANGED <<conn, members, wire, told>>

\* chatId is the value generateId returns.
CreateRoom(serverHash, chatId, d) ==
    /\ IF ~ValidServerHash(serverHash)
       THEN /\ d = 0
            /\ http' = Response(serverHash, 400, "Invalid params", 0)
            /\ UNCHANGED <<rooms, now>>
       ELSE IF chatId \in DOMAIN rooms
       THEN /\ d = 0
            /\ http' = Response(serverHash, 400, "Room already exists", 0)
            /\ UNCHANGED <<rooms, now>>
       ELSE /\ rooms' = RoomsSet(chatId, serverHash, d)
            /\ now' = now + d
            /\ http' = Response(serverHash, 200, "", chatId)
    /\ sent' = <<>>
    /\ refused' = NoRefusal
    /\ UNCHANGED <<conn, members, wire, told>>

\* Requests with a serverHash of hashes, generateId returning a value of ids.
CreateFrom(hashes, ids) ==
    \E serverHash \in hashes, chatId \in ids,
       d \in (IF CanTick THEN {0, 1} ELSE {0}) :
        CreateRoom(serverHash, chatId, d)

(***************************************************************************)
(* Events written to clients.  Every event is a record of the same shape;  *)
(* the fields an event does not carry hold a filler.                       *)
(***************************************************************************)
Event(ev, id, eu, cid, users, payload) ==
    [ev |-> ev, id |-> id, encryptedUsername |-> eu, clientId |-> cid,
     users |-> users, payload |-> payload]

SessionSet(cid) == Event("session_set", 0, JsUndefined, cid, <<>>, NoPayload)
RoomUsers(users) == Event("room_users", 0, JsUndefined, "", users, NoPayload)
\* A user_joined that does not say whose.
UserJoined_Anonymous(id, eu) == Event("user_joined", id, JsUndefined, "", <<>>, NoPayload)

UserJoined(id, eu) == Event("user_joined", id, eu, "", <<>>, NoPayload)
UserLeft(id, eu) == Event("user_left", id, eu, "", <<>>, NoPayload)
MsgEvent(payload) == Event("msg", 0, JsUndefined, "", <<>>, payload)

(***************************************************************************)
(* socket.io.  A socket is in the namespace (io.sockets.sockets) from the  *)
(* start of its connection handler until it closes.  A packet for a        *)
(* socket whose transport has closed is dropped.                           *)
(***************************************************************************)
Range(seq) == {seq[i] : i \in 1..Len(seq)}

Without(seq, x) == SelectSeq(seq, LAMBDA y : y # x)

InNsp(c, s) == c[s].connected /\ c[s].pc \in {"await1", "await2", "joined"}

\* What a handler works on: the sockets, the adapter's rooms, the packets
\* it has written so far.
St(c, m, out) == [conn |-> c, members |-> m, sent |-> out]

Packet(to, e) == [to |-> to, e |-> e]

\* socket.emit(ev)
Emit(st, s, e) ==
    IF InNsp(st.conn, s)
    THEN [st EXCEPT !.sent = Append(@, Packet(s, e))]
    ELSE st

\* A broadcast that reaches only the sockets whose handler has finished.
Recipients_Joined(st, room, sender) ==
    SelectSeq(st.members[room],
              LAMBDA x : x # sender /\ InNsp(st.conn, x) /\ st.conn[x].pc = "joined")

\* socket.to(room).emit(ev): every socket of the room but the sender.
Recipients_All(st, room, sender) ==
    SelectSeq(st.members[room], LAMBDA x : InNsp(st.conn, x))

\* A broadcast that reaches the sockets of every room.
Recipients_AnyRoom(st, room, sender) ==
    SelectSeq([i \in 1..MaxConns |-> i],
              LAMBDA x : /\ x # sender /\ InNsp(st.conn, x)
                         /\ \E r \in RoomIds : x \in Range(st.members[r]))

Recipients(st, room, sender) ==
    SelectSeq(st.members[room], LAMBDA x : x # sender /\ InNsp(st.conn, x))

\* A broadcast that writes every packet twice.
Broadcast_Twice(st, room, sender, e) ==
    LET to == Recipients(st, room, sender)
    IN  [st EXCEPT !.sent = @ \o [i \in 1..Len(to) |-> Packet(to[i], e)]
                                \o [i \in 1..Len(to) |-> Packet(to[i], e)]]

Broadcast(st, room, sender, e) ==
    LET to == Recipients(st, room, sender)
    IN  [st EXCEPT !.sent = @ \o [i \in 1..Len(to) |-> Packet(to[i], e)]]

\* socket.join(room); a closed socket joins nothing.
Join(st, s, room) ==
    IF InNsp(st.conn, s) /\ s \notin Range(st.members[room])
    THEN [st EXCEPT !.members[room] = Append(@, s)]
    ELSE st

\* io.in(room).fetchSockets(): the sockets of the room, read when called.
\* The array holds the socket objects; of each the model keeps the fields
\* the handler reads, none of which changes once the socket is admitted.
SocketRef(st, x) ==
    [id |-> x, clientId |-> st.conn[x].clientId,
     encryptedUsername |-> st.conn[x].encryptedUsername]

FetchSockets(st, room) ==
    LET ids == SelectSeq(st.members[room], LAMBDA x : InNsp(st.conn, x))
    IN  [i \in 1..Len(ids) |-> SocketRef(st, ids[i])]

\* The socket closes (its client went away, or disconnect(true)): it leaves
\* its rooms and the namespace, then its 'disconnect' listeners run.  The
\* handler registers its listener (lines 137-140) on reaching "joined".
\* A listener that is registered, and so runs, twice.
OnDisconnect_Twice(st, s) ==
    IF st.conn[s].pc = "joined"
    THEN Broadcast(Broadcast(st, st.conn[s].chatId, s,
                             UserLeft(s, st.conn[s].encryptedUsername)),
                   st.conn[s].chatId, s,
                   UserLeft(s, st.conn[s].encryptedUsername))
    ELSE st

OnDisconnect(st, s) ==
    IF st.conn[s].pc = "joined"
    THEN Broadcast(st, st.conn[s].chatId, s,
                   UserLeft(s, st.conn[s].encryptedUsername))
    ELSE st

\* A closed socket whose handler has nothing left to run is garbage: no code
\* reads it again, and the model keeps none of its fields.
Gone == [NoConn EXCEPT !.pc = "closed"]

Collect(st, s) ==
    IF ~st.conn[s].connected /\ st.conn[s].pc \in {"admitted", "joined"}
    THEN [st EXCEPT !.conn[s] = Gone]
    ELSE st

Close(st, s) ==
    IF ~st.conn[s].connected
    THEN st
    ELSE Collect(
            OnDisconnect(
                [st EXCEPT !.conn[s].connected = FALSE,
                           !.members = [r \in RoomIds |-> Without(st.members[r], s)]],
                s),
            s)

(***************************************************************************)
(* io.use: the admission middleware.                                       *)
(***************************************************************************)
ValidUsername_NoLength(encryptedUsername) ==
    ~(Falsy(encryptedUsername) \/ encryptedUsername.t # "string")

ValidUsername(encryptedUsername) ==
    ~(Falsy(encryptedUsername) \/ encryptedUsername.t # "string"
        \/ Len(encryptedUsername.s) > MaxUsernameLen)

\* room && Security.verify(token, room.serverHash)
Authenticated_AnyRoom(chatId, token) ==
    \E id \in DOMAIN rooms : Verify(token, rooms[id].serverHash)

Authenticated(chatId, token) ==
    chatId \in DOMAIN rooms /\ Verify(token, rooms[chatId].serverHash)

\* The error of next(new Error("Authentication failed")), line 88.
AuthError_Leaky(chatId) ==
    IF chatId \in DOMAIN rooms THEN "Authentication failed" ELSE "Room not found"

AuthError(chatId) == "Authentication failed"

Refusal(s, chatId, token, encryptedUsername, clientId, err) ==
    [id |-> s, chatId |-> chatId, token |-> token,
     encryptedUsername |-> encryptedUsername, clientId |-> clientId, err |-> err]

\* Sockets take their ids in the order they connect.
NextSocket(s) == conn[s].pc = "new" /\ \A x \in 1..(s - 1) : conn[x].pc # "new"

\* A gate that validates the username before it checks the credentials.
Admit_UsernameFirst(s, chatId, token, encryptedUsername, clientId) ==
    /\ NextSocket(s)
    /\ IF ~ValidUsername(encryptedUsername)
       THEN /\ conn' = [conn EXCEPT ![s] = Gone]
            /\ Outputs(<<>>, NoResponse,
                       Refusal(s, chatId, token, encryptedUsername, clientId,
                               "Invalid encrypted username"))
       ELSE IF Authenticated(chatId, token)
       THEN /\ conn' = [conn EXCEPT ![s] =
                   [NoConn EXCEPT
                       !.pc = "admitted", !.connected = TRUE,
                       !.chatId = chatId, !.token = token,
                       !.encryptedUsername = encryptedUsername,
                       !.clientId = IF clientId = "" THEN randomUUID(s)
                                    ELSE clientId,
                       !.isNewSession = (clientId = "")]]
            /\ Quiet
       ELSE /\ conn' = [conn EXCEPT ![s] = Gone]
            /\ Outputs(<<>>, NoResponse,
                       Refusal(s, chatId, token, encryptedUsername, clientId,
                               AuthError(chatId)))
    /\ UNCHANGED <<rooms, now, members, wire, told>>

\* A gate that counts a handshake as activity of the room.
Admit_Touching(s, chatId, token, encryptedUsername, clientId) ==
    /\ NextSocket(s)
    /\ IF Authenticated(chatId, token)
       THEN IF ~ValidUsername(encryptedUsername)
            THEN /\ conn' = [conn EXCEPT ![s] = Gone]
                 /\ Outputs(<<>>, NoResponse,
                            Refusal(s, chatId, token, encryptedUsername, clientId,
                                    "Invalid encrypted username"))
            ELSE /\ conn' = [conn EXCEPT ![s] =
                        [NoConn EXCEPT
                            !.pc = "admitted", !.connected = TRUE,
                            !.chatId = chatId, !.token = token,
                            !.encryptedUsername = encryptedUsername,
                            !.clientId = IF clientId = "" THEN randomUUID(s)
                                         ELSE clientId,
                            !.isNewSession = (clientId = "")]]
                 /\ Quiet
       ELSE /\ conn' = [conn EXCEPT ![s] = Gone]
            /\ Outputs(<<>>, NoResponse,
                       Refusal(s, chatId, token, encryptedUsername, clientId,
                               AuthError(chatId)))
    /\ rooms' = IF chatId \in DOMAIN rooms
              THEN [rooms EXCEPT ![chatId].lastActive = now]
              ELSE rooms
    /\ UNCHANGED <<now, members, wire, told>>

\* A refused socket is discarded; its client gets the error.
Admit(s, chatId, token, encryptedUsername, clientId) ==
    /\ NextSocket(s)
    /\ IF Authenticated(chatId, token)
       THEN IF ~ValidUsername(encryptedUsername)
            THEN /\ conn' = [conn EXCEPT ![s] = Gone]
                 /\ Outputs(<<>>, NoResponse,
                            Refusal(s, chatId, token, encryptedUsername, clientId,
                                    "Invalid encrypted username"))
            ELSE /\ conn' = [conn EXCEPT ![s] =
                        [NoConn EXCEPT
                            !.pc = "admitted", !.connected = TRUE,
                            !.chatId = chatId, !.token = token,
                            !.encryptedUsername = encryptedUsername,
                            !.clientId = IF clientId = "" THEN randomUUID(s)
                                         ELSE clientId,
                            !.isNewSession = (clientId = "")]]
                 /\ Quiet
       ELSE /\ conn' = [conn EXCEPT ![s] = Gone]
            /\ Outputs(<<>>, NoResponse,
                       Refusal(s, chatId, token, encryptedUsername, clientId,
                               AuthError(chatId)))
    /\ UNCHANGED <<rooms, now, members, wire, told>>

ConnectFrom(chatIds, tokens, usernames, clientIds) ==
    \E s \in ConnIds, chatId \in chatIds, token \in tokens,
       encryptedUsername \in usernames, clientId \in clientIds :
        Admit(s, chatId, token, encryptedUsername, clientId)

(***************************************************************************)
(* io.on('connection'): the handler, in its three synchronous stretches.   *)
(***************************************************************************)
Here == St(conn, members, <<>>)

Commit(st) ==
    /\ conn' = st.conn
    /\ members' = st.members
    /\ Outputs(st.sent, NoResponse, NoRefusal)

\* A touch that stamps every room.
Touch_All(chatId) ==
    [id \in DOMAIN rooms |-> [rooms[id] EXCEPT !.lastActive = now]]

\* A touch that stores a new record in place of the room's.
Touch_Replace(chatId) ==
    IF chatId \in DOMAIN rooms
    THEN [rooms EXCEPT ![chatId] =
             [serverHash |-> JsUndefined, createdAt |-> now, lastActive |-> now]]
    ELSE rooms

\* const room = rooms.get(chatId); if (room) room.lastActive = Date.now();
Touch(chatId) ==
    IF chatId \in DOMAIN rooms
    THEN [rooms EXCEPT ![chatId].lastActive = now]
    ELSE rooms

\* Lines 91-100: session_set, then the first fetchSockets is called.
HandlerStart(s) ==
    /\ conn[s].pc = "admitted"
    /\ conn[s].connected
    /\ LET st0 == [Here EXCEPT !.conn[s].pc = "await1"]
           st1 == Emit(st0, s, SessionSet(conn[s].clientId))
           st2 == [st1 EXCEPT !.conn[s].scan = FetchSockets(st1, conn[s].chatId)]
       IN  Commit(st2)
    /\ UNCHANGED <<rooms, now, wire, told>>

\* Lines 101-111: the loop over the sockets the scan returned.
ReconcileNone(st, s, sockets) == st

\* A loop that disconnects every other socket of the scan, whatever its
\* clientId.
RECURSIVE Reconcile_AnyClient(_, _, _)
Reconcile_AnyClient(st, s, sockets) ==
    IF sockets = <<>>
    THEN st
    ELSE LET z == Head(sockets)
             zombie == z.id # s /\ InNsp(st.conn, z.id)
         IN  Reconcile_AnyClient(IF zombie THEN Close(st, z.id) ELSE st, s,
                                 Tail(sockets))

RECURSIVE Reconcile(_, _, _)
Reconcile(st, s, sockets) ==
    IF sockets = <<>>
    THEN st
    ELSE LET z == Head(sockets)
             zombie == /\ z.clientId = st.conn[s].clientId
                       /\ z.id # s
                       /\ InNsp(st.conn, z.id)
         IN  Reconcile(IF zombie THEN Close(st, z.id) ELSE st, s, Tail(sockets))

\* A handler that registers the socket first and reconciles afterwards.
HandlerJoin_JoinFirst(s) ==
    /\ conn[s].pc = "await1"
    /\ LET chatId == conn[s].chatId
           st0 == [Here EXCEPT !.conn[s].pc = "await2"]
           st1 == Join(st0, s, chatId)
           st2 == Reconcile(st1, s, conn[s].scan)
           st3 == [st2 EXCEPT !.conn[s].scan = FetchSockets(st2, chatId)]
       IN  /\ Commit(st3)
           /\ rooms' = Touch(chatId)
    /\ UNCHANGED <<now, wire, told>>

\* Lines 101-123: reconciliation, join, activity touch, second fetchSockets.
HandlerJoin(s) ==
    /\ conn[s].pc = "await1"
    /\ LET chatId == conn[s].chatId
           st0 == [Here EXCEPT !.conn[s].pc = "await2"]
           st1 == Reconcile(st0, s, conn[s].scan)
           st2 == Join(st1, s, chatId)
           st3 == [st2 EXCEPT !.conn[s].scan = FetchSockets(st2, chatId)]
       IN  /\ Commit(st3)
           /\ rooms' = Touch(chatId)
    /\ UNCHANGED <<now, wire, told>>

\* sockets.map(s => ({ id: s.id, encryptedUsername: s.encryptedUsername }))
UserList_Others(s, sockets) ==
    LET others == SelectSeq(sockets, LAMBDA x : x.id # s)
    IN  [i \in 1..Len(others) |->
            [id |-> others[i].id, encryptedUsername |-> others[i].encryptedUsername]]

UserList(s, sockets) ==
    [i \in 1..Len(sockets) |->
        [id |-> sockets[i].id, encryptedUsername |-> sockets[i].encryptedUsername]]

\* Lines 124-140: room_users, user_joined, and the listeners are registered.
Finish(s) ==
    /\ conn[s].pc = "await2"
    /\ LET chatId == conn[s].chatId
           st0 == [Here EXCEPT !.conn[s].pc = "joined", !.conn[s].scan = <<>>]
           st1 == Emit(st0, s, RoomUsers(UserList(s, conn[s].scan)))
           st2 == Broadcast(st1, chatId, s,
                            UserJoined(s, conn[s].encryptedUsername))
       IN  Commit(Collect(st2, s))
    /\ UNCHANGED <<rooms, now, wire>>

HandlerFinish(s) == Finish(s) /\ UNCHANGED told

\* The ids that the events in packets name to socket m.
Named(packets, m) ==
    UNION { IF packets[i].to # m THEN {}
            ELSE IF packets[i].e.ev = "room_users"
            THEN {packets[i].e.users[k].id : k \in 1..Len(packets[i].e.users)}
            ELSE IF packets[i].e.ev = "user_joined" THEN {packets[i].e.id}
            ELSE {} : i \in 1..Len(packets) }

\* The same stretch, with what it tells each socket recorded.
FinishTold(s) ==
    /\ Finish(s)
    /\ told' = [m \in ConnIds |-> told[m] \cup Named(sent', m)]

(***************************************************************************)
(* socket.on('msg'), and a client that goes away.                          *)
(***************************************************************************)
\* A payload with the sender's id put in place of what the client wrote.
Stamp(s, payload) == [payload EXCEPT !.senderId = s]

Relayed(s, payload) == payload

\* A server that listens for msg from the start of the connection.
Receive_Early(s, payload) ==
    /\ InNsp(conn, s)
    /\ rooms' = Touch(conn[s].chatId)
    /\ Commit(Broadcast(Here, conn[s].chatId, s, MsgEvent(Relayed(s, payload))))
    /\ UNCHANGED <<now>>

\* A msg packet of a connected client.  Before the listener is registered
\* (line 130) nothing listens and the packet is dropped.
Receive(s, payload) ==
    /\ InNsp(conn, s)
    /\ IF conn[s].pc = "joined"
       THEN /\ rooms' = Touch(conn[s].chatId)
            /\ Commit(Broadcast(Here, conn[s].chatId, s, MsgEvent(Relayed(s, payload))))
       ELSE Quiet /\ UNCHANGED <<rooms, conn, members>>
    /\ UNCHANGED <<now>>

Msg(s, payload) == Receive(s, payload) /\ UNCHANGED <<wire, told>>

\* The payloads of the msg events in packets that went to socket m.
MsgsTo(packets, m) ==
    LET mine == SelectSeq(packets, LAMBDA p : p.to = m /\ p.e.ev = "msg")
    IN  [i \in 1..Len(mine) |-> mine[i].e.payload]

\* The same packet, with the wire recorded.
MsgOnWire(s, payload) ==
    /\ Len(wire.arrived) < MaxMsgs
    /\ Receive(s, payload)
    /\ wire' = [arrived |-> Append(wire.arrived, payload),
                inbox |-> [m \in ConnIds |-> wire.inbox[m] \o MsgsTo(sent', m)]]
    /\ UNCHANGED told

\* The transport of a socket closes.
Disconnect(s) ==
    /\ conn[s].connected
    /\ Commit(Close(Here, s))
    /\ UNCHANGED <<rooms, now, wire, told>>

Handler ==
    \/ \E s \in ConnIds : HandlerStart(s)
    \/ \E s \in ConnIds : HandlerJoin(s)
    \/ \E s \in ConnIds : HandlerFinish(s)

SendMsg == \E s \in ConnIds, payload \in Payloads : Msg(s, payload)

SendFrom(payloads) == \E s \in ConnIds, payload \in payloads : Msg(s, payload)

Leave == \E s \in ConnIds : Disconnect(s)

SendOnWire == \E s \in ConnIds, payload \in Payloads : MsgOnWire(s, payload)

HandlerTold ==
    \/ \E s \in ConnIds : HandlerStart(s)
    \/ \E s \in ConnIds : HandlerJoin(s)
    \/ \E s \in ConnIds : FinishTold(s)

(***************************************************************************)
(* Specifications.  All start from the state after construction and differ *)
(* in the requests the clients make.                                       *)
(***************************************************************************)
\* Sessions of one room: clients that hold its token connect, with or
\* without a clientId, talk and leave, in every interleaving of the handlers.
Next ==
    \/ CreateFrom({ServerHashOf(TokA)}, {1})
    \/ ConnectFrom({1}, {TokA}, {GoodName}, ClientIdInputs)
    \/ Handler
    \/ SendMsg
    \/ Leave

Spec == Init /\ [][Next]_vars

\* Two rooms, each with its own token; every client is a new session.
NextRelay ==
    \/ CreateFrom({ServerHashOf(TokA)}, {1})
    \/ CreateFrom({ServerHashOf(TokB)}, {2})
    \/ ConnectFrom(RoomIds, {TokA, TokB}, {GoodName}, {""})
    \/ Handler
    \/ SendMsg
    \/ Leave

SpecRelay == Init /\ [][NextRelay]_vars

\* The admission gate: every handshake, against two rooms with a token each.
NextGate ==
    \/ CreateFrom({ServerHashOf(TokA)}, {1})
    \/ CreateFrom({ServerHashOf(TokB)}, {2})
    \/ ConnectFrom(RoomIds, Tokens, Usernames, {""})
    \/ Handler
    \/ Leave

SpecGate == Init /\ [][NextGate]_vars

\* The registry: every creation request, the clock and the sweeper.
NextRegistry ==
    \/ Tick
    \/ Sweep
    \/ CreateFrom(ServerHashInputs, RoomIds)

SpecRegistry == Init /\ [][NextRegistry]_vars

\* The life of a room: it is created, joined, talked in, left, and swept
\* when the clock has run on; its id may then be drawn again.
NextLife ==
    \/ CreateFrom({ServerHashOf(TokA), ServerHashOf(TokB)}, {1})
    \/ ConnectFrom({1}, {TokA, TokB}, {GoodName}, {""})
    \/ Handler
    \/ SendFrom({[ciphertext |-> "c", iv |-> "i", senderId |-> 0]})
    \/ Leave
    \/ Tick
    \/ Sweep

SpecLife == Init /\ [][NextLife]_vars

\* The messages of one room, followed from their arrival at the server to the
\* sockets they are written to.
NextOrder ==
    \/ CreateFrom({ServerHashOf(TokA)}, {1})
    \/ ConnectFrom({1}, {TokA}, {GoodName}, {""})
    \/ Handler
    \/ SendOnWire
    \/ Leave

SpecOrder == Init /\ [][NextOrder]_vars

\* The messages of one room followed on the wire while the clock runs.
NextDrop ==
    \/ CreateFrom({ServerHashOf(TokA)}, {1})
    \/ ConnectFrom({1}, {TokA}, {GoodName}, {""})
    \/ Handler
    \/ SendOnWire
    \/ Tick

SpecDrop == Init /\ [][NextDrop]_vars

\* Rooms whose stored hash may not be a tag, handshakes with tokens of
\* every kind, the clock and the sweeper.
NextDud ==
    \/ CreateFrom(DudHashInputs \cup {deriveAuthKeys(<<"0", "a">>).serverHash}, {1})
    \/ ConnectFrom({1},
                   {deriveAuthKeys(<<"0", "a">>).token, TokA, JsStr(<<"z", "z">>),
                    JsUndefined},
                   {GoodName, LongName}, {""})
    \/ Tick
    \/ Sweep

SpecDud == Init /\ [][NextDud]_vars

\* The sessions of one room, with what each client is told recorded.
NextTold ==
    \/ CreateFrom({ServerHashOf(TokA)}, {1})
    \/ ConnectFrom({1}, {TokA}, {GoodName}, ClientIdInputs)
    \/ HandlerTold
    \/ Leave

SpecTold == Init /\ [][NextTold]_vars

\* Two rooms made with the same key, whose clients may share a clientId.
NextRooms ==
    \/ CreateFrom({ServerHashOf(TokA)}, RoomIds)
    \/ ConnectFrom(RoomIds, {TokA}, {GoodName}, ClientIdInputs)
    \/ Handler
    \/ Leave

SpecRooms == Init /\ [][NextRooms]_vars

\* The credential check: rooms with every stored hash, handshakes with
\* every token.
NextVerify ==
    \/ CreateFrom(StoredHashInputs, {1})
    \/ ConnectFrom({1}, TokenInputs, {GoodName}, {""})

SpecVerify == Init /\ [][NextVerify]_vars

\* The same, with the timer firing: setInterval keeps calling the sweeper,
\* and the clock moves on while it can.
SpecEvict == Init /\ [][NextLife]_vars /\ WF_vars(Sweep) /\ WF_vars(Tick)

(***************************************************************************)
(* Vocabulary of the properties.                                           *)
(***************************************************************************)
Ids(sockets) == [i \in 1..Len(sockets) |-> sockets[i].id]

NoDuplicates(seq) == \A i, j \in 1..Len(seq) : seq[i] = seq[j] => i = j

PacketsTo(packets, s, ev) ==
    {i \in 1..Len(packets) : packets[i].to = s /\ packets[i].e.ev = ev}

\* The socket has closed, or was never let in.
Dropped(c, s) == c[s].pc \in {"await1", "await2", "closed"} /\ ~c[s].connected

\* The steps of a socket's handler, and of the middleware.
AdmitStep(s) == conn[s].pc = "new" /\ conn'[s].pc = "admitted"
RefuseStep(s) == conn[s].pc = "new" /\ conn'[s].pc = "closed"
JoinStep(s) == conn[s].pc = "await1" /\ conn'[s].pc = "await2"
FinishStep(s) == conn[s].pc = "await2" /\ conn'[s].pc # "await2"

(***************************************************************************)
(* C1.  In every reachable state, at most one connection per (room,        *)
(* clientId) is a member of the room's broadcast set, in every             *)
(* interleaving of the connection handlers.  The code does not keep this:  *)
(* two handlers that both finished their scan before either joined both    *)
(* join.                                                                   *)
(***************************************************************************)
C1_OneMemberPerClient ==
    \A r \in RoomIds : \A a, b \in Range(members[r]) :
        conn[a].clientId = conn[b].clientId => a = b

(***************************************************************************)
(* C2.  Sequential zombie reconciliation: when B joins, every socket A     *)
(* that B's scan found in the room with B's clientId (so A had joined      *)
(* before B's scan) is closed and out of the room once B's join step is    *)
(* done; and a closed socket stays closed, is in no room and is written    *)
(* no packet from then on.                                                 *)
(***************************************************************************)
C2_ZombieDropped ==
    \A b \in ConnIds : JoinStep(b) =>
        \A i \in 1..Len(conn[b].scan) :
            LET a == conn[b].scan[i]
            IN  (a.id # b /\ a.clientId = conn[b].clientId) =>
                    /\ Dropped(conn', a.id)
                    /\ \A r \in RoomIds : a.id \notin Range(members'[r])

C2_DroppedForGood ==
    \A a \in ConnIds : Dropped(conn, a) =>
        /\ Dropped(conn', a)
        /\ \A r \in RoomIds : a \notin Range(members'[r])
        /\ \A j \in 1..Len(sent') : sent'[j].to # a

\* C2: the zombies B's scan found are closed and out of the room when B has
\* joined, and a closed socket is in no room and is written nothing again.
C2_ZombieReconciled == [][C2_ZombieDropped /\ C2_DroppedForGood]_vars

\* B has just joined and its join step closed a joined zombie: the zombie's
\* user_left went to the third member only, B not being in the room yet.
C2_Witness ==
    \E a, b, c \in ConnIds :
        /\ a # b /\ b # c /\ a # c
        /\ conn[b].pc = "await2" /\ conn[b].connected
        /\ b \in Range(members[conn[b].chatId])
        /\ conn[a].pc = "closed"
        /\ sent = <<Packet(c, UserLeft(a, GoodName))>>

(***************************************************************************)
(* C3.  As claimed: the room_users snapshot a joining connection is sent   *)
(* lists the other members of its room and not the connection itself.      *)
(***************************************************************************)
C3_SnapshotOfOthers ==
    [][\A s \in ConnIds : (FinishStep(s) /\ conn[s].connected) =>
          /\ Cardinality(PacketsTo(sent', s, "room_users")) = 1
          /\ \A i \in PacketsTo(sent', s, "room_users") :
                LET users == sent'[i].e.users
                IN  /\ {users[j].id : j \in 1..Len(users)}
                          = Range(Ids(conn[s].scan)) \ {s}
                    /\ NoDuplicates(Ids(users))]_vars

(***************************************************************************)
(* C3, amended.  The snapshot is taken in the join step, right after the   *)
(* join: it lists the live members of the room at that moment, the         *)
(* joining connection included, each once, and none of the zombies the     *)
(* step closed.  The room_users packet carries that list, with each        *)
(* member's encryptedUsername; a connection that closed meanwhile is sent  *)
(* nothing.                                                                *)
(***************************************************************************)
C3_SnapshotTaken ==
    \A s \in ConnIds : JoinStep(s) =>
        LET room == members'[conn[s].chatId]
            scan == conn'[s].scan
        IN  /\ Ids(scan) = room
            /\ NoDuplicates(room)
            /\ \A x \in Range(room) : InNsp(conn', x)
            /\ \A i \in 1..Len(scan) :
                  scan[i].encryptedUsername = conn'[scan[i].id].encryptedUsername
            /\ conn'[s].connected <=> s \in Range(room)
            /\ \A i \in 1..Len(conn[s].scan) :
                  (conn[s].scan[i].id # s
                     /\ conn[s].scan[i].clientId = conn[s].clientId)
                  => conn[s].scan[i].id \notin Range(room)

C3_SnapshotSent ==
    \A s \in ConnIds : FinishStep(s) =>
        IF conn[s].connected
        THEN /\ Len(sent') >= 1
             /\ PacketsTo(sent', s, "room_users") = {1}
             /\ LET users == sent'[1].e.users
                    scan == conn[s].scan
                IN  /\ Len(users) = Len(scan)
                    /\ \A i \in 1..Len(scan) :
                          /\ users[i].id = scan[i].id
                          /\ users[i].encryptedUsername = scan[i].encryptedUsername
                    /\ NoDuplicates(Ids(users))
                    /\ \E i \in 1..Len(users) : users[i].id = s
        ELSE PacketsTo(sent', s, "room_users") = {}

\* C3, amended: the snapshot lists the live members at the join, the joiner
\* included, each once, and that list is what room_users carries.
C3_SnapshotOfMembers == [][C3_SnapshotTaken /\ C3_SnapshotSent]_vars

\* A snapshot of two entries has just been sent: the joiner and one other.
C3_Witness ==
    /\ Len(sent) >= 1
    /\ sent[1].e.ev = "room_users"
    /\ Len(sent[1].e.users) = 2
    /\ \E i \in 1..2 : sent[1].e.users[i].id = sent[1].to

(***************************************************************************)
(* C4.  When a joined connection sends a msg, exactly one msg packet with  *)
(* the unchanged payload goes to every other member of the sender's room   *)
(* at that moment, and nothing goes to anyone else: none to the sender,    *)
(* none to a member of another room, and nothing at all when the sender    *)
(* is alone.  The relay is one step: all the members of that moment, and   *)
(* they are all live.                                                      *)
(***************************************************************************)
RelayOf(s, payload) == Msg(s, payload) /\ conn[s].pc = "joined"

C4_Delivery(s, payload) ==
    LET room == Range(members[conn[s].chatId])
    IN  /\ s \in room
        /\ \A x \in room : InNsp(conn, x)
        /\ \A i \in 1..Len(sent') :
              /\ sent'[i].e.ev = "msg"
              /\ sent'[i].e.payload = payload
        /\ \A x \in ConnIds :
              Cardinality(PacketsTo(sent', x, "msg"))
                  = IF x \in room \ {s} THEN 1 ELSE 0
        /\ UNCHANGED <<conn, members>>

\* C4: every relay step delivers the payload, unchanged, once to each other
\* member of the sender's room and to no one else.
C4_RelayToOthers ==
    [][\A s \in ConnIds, payload \in Payloads :
          RelayOf(s, payload) => C4_Delivery(s, payload)]_vars

\* A msg has just gone to the one other member of the sender's room while
\* a third connection is a member of the other room.
C4_Witness ==
    /\ Len(sent) = 1
    /\ sent[1].e.ev = "msg"
    /\ \E r \in RoomIds :
          /\ sent[1].to \in Range(members[r])
          /\ Len(members[r]) = 2
          /\ \E q \in RoomIds \ {r} : Len(members[q]) = 1

(***************************************************************************)
(* C5.  As claimed: every msg delivered to a recipient carries a senderId  *)
(* equal to the id of the connection that sent it, whatever payload the    *)
(* sender submitted.                                                       *)
(***************************************************************************)
C5_SenderIdIsSender ==
    [][\A s \in ConnIds, payload \in Payloads :
          RelayOf(s, payload) =>
              \A i \in 1..Len(sent') : sent'[i].e.payload.senderId = s]_vars

(***************************************************************************)
(* C5, amended.  Every msg delivered to a recipient carries the senderId   *)
(* the sender wrote in the payload, and none when the sender wrote none:   *)
(* the server neither adds nor checks it.  It is the sender's id only      *)
(* when the sending client put its own id there.                           *)
(***************************************************************************)
C5_SenderIdAsSubmitted ==
    [][\A s \in ConnIds, payload \in Payloads :
          RelayOf(s, payload) =>
              \A i \in 1..Len(sent') :
                  /\ sent'[i].e.payload.senderId = payload.senderId
                  /\ sent'[i].e.payload.ciphertext = payload.ciphertext
                  /\ sent'[i].e.payload.iv = payload.iv]_vars

\* A msg has just been delivered whose senderId names its recipient, which
\* is not the connection that sent it.
C5_Witness ==
    \E i \in 1..Len(sent) :
        /\ sent[i].e.ev = "msg"
        /\ sent[i].e.payload.senderId = sent[i].to

(***************************************************************************)
(* C6.  A connection is admitted only if, at that moment, the registry has *)
(* a room with its chatId and its token verifies against that room's       *)
(* hash; a handshake that fails this is refused with "Authentication       *)
(* failed", also when its token verifies against the hash of another       *)
(* existing room.  Hence every member of a room's broadcast set is a       *)
(* connection that was admitted, with such a token, to that room.          *)
(***************************************************************************)
Matches(chatId, token) ==
    /\ chatId \in DOMAIN rooms
    /\ Verify(token, rooms[chatId].serverHash)

C6_Gate ==
    \A s \in ConnIds :
        /\ AdmitStep(s) => Matches(conn'[s].chatId, conn'[s].token)
        /\ (RefuseStep(s) /\ ~Matches(refused'.chatId, refused'.token))
               => refused'.err = "Authentication failed"
        /\ (conn[s].pc = "new" /\ conn'[s].pc # "new")
               => AdmitStep(s) \/ (RefuseStep(s) /\ refused'.id = s)

C6_MembersWereAdmitted ==
    \A r \in RoomIds : \A s \in Range(members'[r]) :
        /\ conn'[s].pc \in {"await2", "joined"}
        /\ conn'[s].chatId = r
        /\ conn[s].pc # "new"

\* C6: admission only with a token that verifies against the hash of the
\* room asked for; members of a room are sockets admitted to that room.
C6_AdmittedOnlyVerified == [][C6_Gate /\ C6_MembersWereAdmitted]_vars

\* A handshake for an existing room has just been refused whose token
\* verifies against the hash of the other existing room.
C6_Witness ==
    /\ refused.err = "Authentication failed"
    /\ refused.chatId \in DOMAIN rooms
    /\ \E r \in DOMAIN rooms :
          r # refused.chatId /\ Verify(refused.token, rooms[r].serverHash)

(***************************************************************************)
(* C7.  A handshake for a chatId that no room has, and one for a room      *)
(* whose hash the token does not verify against, have the same outcome:    *)
(* the error "Authentication failed", no packet, and no change to the      *)
(* registry, the broadcast sets or any other connection.                   *)
(***************************************************************************)
C7_Outcome(s) ==
    /\ refused'.err = "Authentication failed"
    /\ sent' = <<>>
    /\ http' = NoResponse
    /\ conn' = [conn EXCEPT ![s] = Gone]
    /\ UNCHANGED <<rooms, members, now>>

C7_NoSuchRoom(s) ==
    RefuseStep(s) /\ refused'.chatId \notin DOMAIN rooms

C7_WrongToken(s) ==
    /\ RefuseStep(s)
    /\ refused'.chatId \in DOMAIN rooms
    /\ ~Verify(refused'.token, rooms[refused'.chatId].serverHash)

\* C7: an absent room and a wrong token are refused with the same outcome.
C7_SameRefusal ==
    [][\A s \in ConnIds :
          /\ C7_NoSuchRoom(s) => C7_Outcome(s)
          /\ C7_WrongToken(s) => C7_Outcome(s)]_vars

\* A well-formed token and username have just been refused at a room that
\* exists, while the other room id is not in the registry.
C7_Witness ==
    /\ refused.err = "Authentication failed"
    /\ refused.chatId \in DOMAIN rooms
    /\ TokenOk(refused.token)
    /\ refused.encryptedUsername = GoodName
    /\ ~Verify(refused.token, rooms[refused.chatId].serverHash)
    /\ \E r \in RoomIds : r \notin DOMAIN rooms

(***************************************************************************)
(* C8.  A handshake whose encryptedUsername is missing, not a string or    *)
(* longer than 256 characters is never admitted; and every refusal, for    *)
(* whatever reason, leaves nothing behind: the socket is in no broadcast   *)
(* set, no packet is written to it or to anyone, and the registry and the  *)
(* broadcast sets are as they were.                                        *)
(***************************************************************************)
C8_BadUsername(v) ==
    \/ v.t = "undefined"
    \/ v.t # "string"
    \/ Len(v.s) > 256

C8_NeverAdmitted ==
    \A s \in ConnIds :
        AdmitStep(s) => ~C8_BadUsername(conn'[s].encryptedUsername)

C8_NothingLeft ==
    \A s \in ConnIds : RefuseStep(s) =>
        /\ refused'.id = s
        /\ refused'.err \in {"Authentication failed", "Invalid encrypted username"}
        /\ C8_BadUsername(refused'.encryptedUsername)
               => refused'.err = IF Matches(refused'.chatId, refused'.token)
                                 THEN "Invalid encrypted username"
                                 ELSE "Authentication failed"
        /\ \A r \in RoomIds : s \notin Range(members'[r])
        /\ sent' = <<>>
        /\ conn' = [conn EXCEPT ![s] = Gone]
        /\ UNCHANGED <<rooms, members>>

\* C8: a bad encryptedUsername is never admitted, and a refusal leaves
\* nothing behind.
C8_RefusedCleanly == [][C8_NeverAdmitted /\ C8_NothingLeft]_vars

\* A handshake with the right token and a username of 257 characters has
\* just been refused at a room that has a member.
C8_Witness ==
    /\ refused.err = "Invalid encrypted username"
    /\ refused.encryptedUsername.t = "string"
    /\ Len(refused.encryptedUsername.s) = MaxUsernameLen + 1
    /\ refused.chatId \in DOMAIN rooms
    /\ members[refused.chatId] # <<>>

(***************************************************************************)
(* C9.  As claimed: for every serverHash that is a non-empty string of at  *)
(* most 128 characters the creation succeeds, returns a chatId that was    *)
(* not in the registry, and adds exactly one room with that hash whose     *)
(* createdAt and lastActive are both the creation time, leaving the other  *)
(* rooms as they were.                                                     *)
(***************************************************************************)
C9_GoodHash(v) == v.t = "string" /\ Len(v.s) >= 1 /\ Len(v.s) <= 128

C9_Added(serverHash, chatId) ==
    /\ http'.status = 200
    /\ http'.chatId = chatId
    /\ chatId \notin DOMAIN rooms
    /\ DOMAIN rooms' = DOMAIN rooms \cup {chatId}
    /\ rooms'[chatId].serverHash = serverHash
    /\ \A r \in DOMAIN rooms : rooms'[r] = rooms[r]

\* C9, as claimed: a valid serverHash always creates a room, stamped with
\* the one creation time.
C9_AlwaysCreated ==
    [][\A serverHash \in ServerHashInputs, chatId \in RoomIds, d \in {0, 1} :
          (CreateRoom(serverHash, chatId, d) /\ C9_GoodHash(serverHash)) =>
              /\ C9_Added(serverHash, chatId)
              /\ rooms'[chatId].createdAt = now
              /\ rooms'[chatId].lastActive = now]_vars

(***************************************************************************)
(* C9, amended.  For every such serverHash the creation draws one id.  If  *)
(* a room has that id the creation fails with 400 "Room already exists"    *)
(* and the registry is as it was; there is no second draw.  Otherwise it   *)
(* succeeds, returns that id, and adds exactly one room with the           *)
(* submitted hash, leaving the other rooms as they were; createdAt and     *)
(* lastActive are two readings of the clock, createdAt the earlier one,    *)
(* and they differ when the clock moves between them.                      *)
(***************************************************************************)
\* C9, amended: a valid serverHash creates the room unless the id drawn is
\* taken; createdAt and lastActive are two clock readings.
C9_CreatedUnlessCollision ==
    [][\A serverHash \in ServerHashInputs, chatId \in RoomIds, d \in {0, 1} :
          (CreateRoom(serverHash, chatId, d) /\ C9_GoodHash(serverHash)) =>
              IF chatId \in DOMAIN rooms
              THEN /\ http'.status = 400
                   /\ http'.body = "Room already exists"
                   /\ UNCHANGED <<rooms, now>>
              ELSE /\ C9_Added(serverHash, chatId)
                   /\ rooms'[chatId].createdAt = now
                   /\ rooms'[chatId].lastActive = now + d
                   /\ now' = now + d]_vars

\* A room has just been created next to another one, the clock having moved
\* between the two readings.
C9_Witness ==
    /\ http.status = 200
    /\ http.chatId \in DOMAIN rooms
    /\ rooms[http.chatId].createdAt < rooms[http.chatId].lastActive
    /\ \E r \in DOMAIN rooms : r # http.chatId

(***************************************************************************)
(* C10.  A creation whose serverHash is missing, not a string or longer    *)
(* than 128 characters is answered 400; and every creation answered 400,   *)
(* for a bad input or for an id that a room already has, leaves the        *)
(* registry as it was: no room added, none overwritten or changed.         *)
(***************************************************************************)
C10_BadHash(v) ==
    \/ v.t = "undefined"
    \/ v.t # "string"
    \/ Len(v.s) > 128

\* C10: a bad serverHash is answered 400, and a creation answered 400
\* leaves the registry as it was.
C10_FailedCreationKeepsRegistry ==
    [][\A serverHash \in ServerHashInputs, chatId \in RoomIds, d \in {0, 1} :
          CreateRoom(serverHash, chatId, d) =>
              /\ C10_BadHash(serverHash) => http'.status = 400
              /\ http'.status \in {200, 400}
              /\ http'.status = 400 => rooms' = rooms
              /\ (chatId \in DOMAIN rooms) =>
                    /\ http'.status = 400
                    /\ rooms'[chatId] = rooms[chatId]]_vars

\* A creation has just failed on an id that a room already has.
C10_Witness ==
    /\ http.status = 400
    /\ http.body = "Room already exists"
    /\ C9_GoodHash(http.req)
    /\ rooms # << >>

(***************************************************************************)
(* C11.  As claimed: when the id drawn is the id of a live room, the       *)
(* creation draws again, so that with a free id left the request still     *)
(* yields a created room; the conflict is reported only when the retries   *)
(* are exhausted.                                                          *)
(***************************************************************************)
C11_Collision(serverHash, chatId, d) ==
    /\ CreateRoom(serverHash, chatId, d)
    /\ C9_GoodHash(serverHash)
    /\ chatId \in DOMAIN rooms
    /\ RoomIds \ DOMAIN rooms # {}

C11_RetriedOnCollision ==
    [][\A serverHash \in ServerHashInputs, chatId \in RoomIds, d \in {0, 1} :
          C11_Collision(serverHash, chatId, d) =>
              /\ http'.status = 200
              /\ http'.chatId \in DOMAIN rooms' \ DOMAIN rooms]_vars

(***************************************************************************)
(* C11, amended.  When the id drawn is the id of a live room the creation  *)
(* does not draw again: the first collision is reported to the caller at   *)
(* once, as 400 "Room already exists", also when free ids are left, and    *)
(* no room is created by that request.                                     *)
(***************************************************************************)
C11_CollisionReportedAtOnce ==
    [][\A serverHash \in ServerHashInputs, chatId \in RoomIds, d \in {0, 1} :
          C11_Collision(serverHash, chatId, d) =>
              /\ http'.status = 400
              /\ http'.body = "Room already exists"
              /\ http'.chatId = 0
              /\ DOMAIN rooms' = DOMAIN rooms
              /\ rooms' = rooms]_vars

\* A creation has just been answered "Room already exists" while an id was
\* free.
C11_Witness ==
    /\ http.status = 400
    /\ http.body = "Room already exists"
    /\ RoomIds \ DOMAIN rooms # {}
    /\ DOMAIN rooms # {}

(***************************************************************************)
(* C12.  The hash of a room is immutable: no step changes the hash of a    *)
(* room that is in the registry, whatever the step is (create, admission,  *)
(* join, message, disconnect, sweep, clock), and a room that enters the    *)
(* registry holds the hash its creation request supplied.  So every room   *)
(* in the registry holds the hash it was created with.                     *)
(***************************************************************************)
C12_HashImmutable ==
    [][\A id \in DOMAIN rooms' :
          IF id \in DOMAIN rooms
          THEN rooms'[id].serverHash = rooms[id].serverHash
          ELSE /\ http'.status = 200
               /\ http'.chatId = id
               /\ rooms'[id].serverHash = http'.req]_vars

\* A room created with the second hash has been joined and touched later
\* than it was created, and a message has just been relayed in it.
C12_Witness ==
    /\ 1 \in DOMAIN rooms
    /\ rooms[1].serverHash = ServerHashOf(TokB)
    /\ rooms[1].createdAt < rooms[1].lastActive
    /\ Len(sent) >= 1
    /\ sent[1].e.ev = "msg"

(***************************************************************************)
(* C13.  A sweep at time now removes exactly the rooms whose inactivity    *)
(* now - lastActive is strictly greater than 3600000 ms: a room inactive   *)
(* for exactly 3600000 ms stays, a room inactive for 3600001 ms goes, and  *)
(* every room that stays is unchanged.  No other step removes a room.      *)
(***************************************************************************)
C13_Inactivity(id) == now - rooms[id].lastActive

C13_SweepRemoves ==
    Sweep =>
        /\ DOMAIN rooms' = {id \in DOMAIN rooms : C13_Inactivity(id) <= 3600000}
        /\ \A id \in DOMAIN rooms :
              /\ C13_Inactivity(id) = 3600000 => id \in DOMAIN rooms'
              /\ C13_Inactivity(id) = 3600001 => id \notin DOMAIN rooms'
        /\ \A id \in DOMAIN rooms' : rooms'[id] = rooms[id]
        /\ now' = now

C13_OnlyExpiredRemoved ==
    \A id \in DOMAIN rooms \ DOMAIN rooms' : C13_Inactivity(id) > 3600000

C13_SweepAtBoundary == [][C13_SweepRemoves /\ C13_OnlyExpiredRemoved]_vars

\* One hour and a millisecond after the start, the registry holds a room
\* inactive for exactly one hour and no room inactive for longer.
C13_Witness ==
    /\ now = InactivityLimit + 1
    /\ \E id \in DOMAIN rooms : C13_Inactivity(id) = InactivityLimit
    /\ \A id \in DOMAIN rooms : C13_Inactivity(id) <= InactivityLimit
    /\ DOMAIN rooms # RoomIds

(***************************************************************************)
(* C14.  With the sweeper firing again and again, a room that has been     *)
(* inactive for more than an hour and gets no further join or message is   *)
(* eventually removed from the registry.  While its id is not in the       *)
(* registry, every handshake for that id is refused with "Authentication   *)
(* failed", the room's own token included; there is no other error for an  *)
(* expired room.                                                           *)
(***************************************************************************)
C14_Overdue(id) ==
    id \in DOMAIN rooms /\ now - rooms[id].lastActive > 3600000

C14_EventuallyRemoved ==
    \A id \in RoomIds : C14_Overdue(id) ~> ~C14_Overdue(id)

C14_NotOverdueOnlyByTouchOrRemoval ==
    \A id \in RoomIds : (C14_Overdue(id) /\ ~C14_Overdue(id)') =>
        \/ id \notin DOMAIN rooms'
        \/ rooms'[id] = [rooms[id] EXCEPT !.lastActive = now]

C14_RefusedWhenAbsent ==
    \A s \in ConnIds :
        (conn[s].pc = "new" /\ conn'[s].pc # "new"
           /\ (conn'[s].chatId \notin DOMAIN rooms /\ refused'.chatId \notin DOMAIN rooms))
        => /\ RefuseStep(s)
           /\ refused'.id = s
           /\ refused'.err = "Authentication failed"

C14_ExpiredRoomRefuses ==
    /\ C14_EventuallyRemoved
    /\ [][C14_NotOverdueOnlyByTouchOrRemoval /\ C14_RefusedWhenAbsent]_vars

\* The room's own token has just been refused, more than an hour on, for an
\* id that is not in the registry although a connection that joined the
\* room is still a member: the room was swept.
C14_Witness ==
    /\ refused.err = "Authentication failed"
    /\ refused.chatId = 1
    /\ 1 \notin DOMAIN rooms
    /\ members[1] # <<>>
    /\ refused.token = conn[members[1][1]].token
    /\ now > InactivityLimit

(***************************************************************************)
(* C15.  The touch made by a join and by each relayed message changes      *)
(* nothing in the registry but the lastActive of the connection's own      *)
(* room, which becomes the time of the touch and so never decreases: the   *)
(* room's hash and createdAt, every other room and the set of rooms are    *)
(* as they were, however often the room is touched.                        *)
(***************************************************************************)
C15_TouchStep(s) ==
    JoinStep(s) \/ \E payload \in Payloads : RelayOf(s, payload)

C15_Frame(r) ==
    /\ DOMAIN rooms' = DOMAIN rooms
    /\ \A id \in DOMAIN rooms :
          IF id = r
          THEN /\ rooms'[id].serverHash = rooms[id].serverHash
               /\ rooms'[id].createdAt = rooms[id].createdAt
               /\ rooms'[id].lastActive = now
               /\ rooms'[id].lastActive >= rooms[id].lastActive
          ELSE rooms'[id] = rooms[id]
    /\ now' = now

C15_TouchOnlyLastActive ==
    [][\A s \in ConnIds : C15_TouchStep(s) => C15_Frame(conn[s].chatId)]_vars

\* A message has just been relayed in a room that was created earlier and
\* is now stamped later than the other room.
C15_Witness ==
    /\ Len(sent) >= 1
    /\ sent[1].e.ev = "msg"
    /\ DOMAIN rooms = RoomIds
    /\ LET r == conn[sent[1].to].chatId
       IN  /\ rooms[r].lastActive = now
           /\ rooms[r].createdAt < now
           /\ \A q \in RoomIds \ {r} : rooms[q].lastActive < now

(***************************************************************************)
(* C16.  A connection is bound, at admission, to the clientId it supplied  *)
(* or, when it supplied none, to a generated id that no other connection   *)
(* has.  Its handler sends it session_set exactly once, when it starts,    *)
(* carrying that clientId; no other step sends session_set, and            *)
(* room_users is sent only later in the same handler.                      *)
(***************************************************************************)
C16_Bound ==
    \A s \in ConnIds, chatId \in RoomIds, token \in Tokens,
       encryptedUsername \in Usernames, clientId \in ClientIdInputs :
        (Admit(s, chatId, token, encryptedUsername, clientId) /\ AdmitStep(s)) =>
            IF clientId # ""
            THEN conn'[s].clientId = clientId /\ ~conn'[s].isNewSession
            ELSE /\ conn'[s].isNewSession
                 /\ conn'[s].clientId \notin ClientIdInputs
                 /\ \A x \in ConnIds \ {s} : conn'[x].clientId # conn'[s].clientId

C16_SentAtStart ==
    \A s \in ConnIds :
        /\ (conn[s].pc = "admitted" /\ conn'[s].pc \notin {"admitted", "closed"}) =>
              /\ conn'[s].pc = "await1"
              /\ conn'[s].clientId = conn[s].clientId
              /\ sent' = <<Packet(s, SessionSet(conn[s].clientId))>>
        /\ PacketsTo(sent', s, "session_set") # {} => conn[s].pc = "admitted"
        /\ PacketsTo(sent', s, "room_users") # {} => conn[s].pc = "await2"
        /\ conn[s].pc \in {"await1", "await2", "joined"} =>
              /\ conn'[s].pc \in {"await1", "await2", "joined", "closed"}
              /\ conn'[s].pc # "closed" => conn'[s].clientId = conn[s].clientId

C16_SessionSetOnce == [][C16_Bound /\ C16_SentAtStart]_vars

\* A connection that supplied no clientId has just been sent the id
\* generated for it, while a second one holds another generated id and a
\* third the id it supplied.
C16_Witness ==
    /\ Len(sent) = 1
    /\ sent[1].e.ev = "session_set"
    /\ conn[sent[1].to].isNewSession
    /\ sent[1].e.clientId = conn[sent[1].to].clientId
    /\ \E x, y \in ConnIds \ {sent[1].to} :
          /\ conn[x].isNewSession
          /\ conn[x].clientId # conn[sent[1].to].clientId
          /\ conn[y].clientId = "c1"

(***************************************************************************)
(* C17.  Join and leave notifications are paired: when a connection c      *)
(* that a member m of its room knows of (m was sent user_joined for c, or  *)
(* c was in m's room_users) disconnects while m is still a member, m is    *)
(* sent user_left for c, whether c left by itself or was terminated as a   *)
(* zombie, and also when c's handler has not yet registered its            *)
(* disconnect listener.                                                    *)
(*                                                                         *)
(* A member m whose handler has finished was sent, in its room_users,      *)
(* every connection that joined the room before it and is still a member.  *)
(***************************************************************************)
Position(seq, x) == CHOOSE i \in 1..Len(seq) : seq[i] = x

C17_Knows(m, c) ==
    LET room == members[conn[m].chatId]
    IN  /\ m # c
        /\ conn[m].pc = "joined"
        /\ conn[c].chatId = conn[m].chatId
        /\ m \in Range(room)
        /\ c \in Range(room)
        /\ Position(room, c) < Position(room, m)

C17_LeavePaired ==
    [][\A c, m \in ConnIds :
          (/\ C17_Knows(m, c)
           /\ conn[c].connected /\ ~conn'[c].connected
           /\ m \in Range(members'[conn[m].chatId]))
          => \E i \in PacketsTo(sent', m, "user_left") : sent'[i].e.id = c]_vars

(***************************************************************************)
(* C18.  At most one leave notification per connection: user_left for a    *)
(* connection c is written only in the step in which c closes, at most     *)
(* once to each member in that step, and a closed connection never closes  *)
(* again; so no member is ever sent two user_left for the same c, also     *)
(* when c was terminated as a zombie and its transport closes afterwards.  *)
(***************************************************************************)
C18_LeftPackets(m, c) ==
    {i \in PacketsTo(sent', m, "user_left") : sent'[i].e.id = c}

C18_OncePerClose ==
    \A c, m \in ConnIds :
        /\ Cardinality(C18_LeftPackets(m, c)) <= 1
        /\ C18_LeftPackets(m, c) # {} =>
              /\ conn[c].connected /\ ~conn'[c].connected
              /\ conn[c].pc = "joined"
              /\ m # c

C18_ClosedStaysClosed ==
    \A c \in ConnIds :
        (conn[c].pc # "new" /\ ~conn[c].connected) =>
            (conn'[c].pc # "new" /\ ~conn'[c].connected)

C18_AtMostOneLeave == [][C18_OncePerClose /\ C18_ClosedStaysClosed]_vars

\* A joining connection has just terminated a zombie, and the one other
\* member was sent a single user_left for it.
C18_Witness ==
    /\ Len(sent) = 1
    /\ sent[1].e.ev = "user_left"
    /\ conn[sent[1].e.id].pc = "closed"
    /\ conn[sent[1].to].pc = "joined"
    /\ \E b \in ConnIds \ {sent[1].to, sent[1].e.id} :
          /\ conn[b].pc = "await2"
          /\ conn[b].connected
          /\ members[conn[b].chatId] = <<sent[1].to, b>>

(***************************************************************************)
(* C19.  Left is terminal: once a connection has disconnected it stays     *)
(* disconnected, it is not added to a broadcast set, no user_joined is     *)
(* broadcast for it and no message from it is relayed, in every            *)
(* interleaving, also when it disconnects while its handler is suspended   *)
(* before the join.                                                        *)
(***************************************************************************)
C19_Left(c) == conn[c].pc # "new" /\ ~conn[c].connected

C19_LeftIsTerminal ==
    [][\A c \in ConnIds : C19_Left(c) =>
          /\ ~conn'[c].connected
          /\ conn'[c].pc # "new"
          /\ \A r \in RoomIds : c \notin Range(members'[r])
          /\ \A i \in 1..Len(sent') :
                ~(sent'[i].e.ev = "user_joined" /\ sent'[i].e.id = c)
          /\ \A payload \in Payloads : ~RelayOf(c, payload)]_vars

(***************************************************************************)
(* C20.  Fan-out keeps the order of arrival: the msg events written to a   *)
(* socket are, in the order written, messages the server received, in the  *)
(* order it received them, each at most once.  So a member that is         *)
(* delivered m1 and m2, received by the server in that order, is           *)
(* delivered m1 first, whoever sent them.                                  *)
(***************************************************************************)
RECURSIVE IsSubsequence(_, _)
IsSubsequence(a, b) ==
    IF a = <<>> THEN TRUE
    ELSE IF b = <<>> THEN FALSE
    ELSE IF Head(a) = Head(b) THEN IsSubsequence(Tail(a), Tail(b))
    ELSE IsSubsequence(a, Tail(b))

C20_ArrivalOrderKept ==
    \A m \in ConnIds : IsSubsequence(wire.inbox[m], wire.arrived)

\* Two different messages from two senders have arrived; a third member
\* was delivered both, and each sender only the other's.
C20_Witness ==
    /\ Len(wire.arrived) = 2
    /\ wire.arrived[1] # wire.arrived[2]
    /\ \E a, b, m \in ConnIds :
          /\ wire.inbox[m] = wire.arrived
          /\ wire.inbox[a] = <<wire.arrived[2]>>
          /\ wire.inbox[b] = <<wire.arrived[1]>>

(***************************************************************************)
(* C21.  verify(token, hash) is true exactly when token is the token from  *)
(* which hash was derived: the pair (token, serverHash) that               *)
(* deriveAuthKeys(K) makes verifies, and every other token string, be it   *)
(* arbitrary or the right token with characters altered or appended, does  *)
(* not.  Stated of the handshakes the middleware decides by verify alone   *)
(* (the room exists, the username is valid): a handshake is admitted       *)
(* exactly when its token and the room's stored hash are such a pair.      *)
(***************************************************************************)
C21_DerivedPair(token, serverHash) ==
    \E K \in RawKeys :
        deriveAuthKeys(K) = [token |-> token, serverHash |-> serverHash]

C21_OnlyDerivedTokenVerifies ==
    [][\A s \in ConnIds :
        /\ AdmitStep(s) =>
              C21_DerivedPair(conn'[s].token, rooms[conn'[s].chatId].serverHash)
        /\ RefuseStep(s) /\ refused'.chatId \in DOMAIN rooms
                         /\ ValidUsername(refused'.encryptedUsername) =>
              ~C21_DerivedPair(refused'.token, rooms[refused'.chatId].serverHash)]_vars

(***************************************************************************)
(* C22.  verify returns false for every malformed input: a token that is   *)
(* missing, empty, no string or not decodable as hex, and a stored hash    *)
(* whose decoded length is not the length of the expected tag.  So no      *)
(* handshake with such a token, or to a room with such a hash, is          *)
(* admitted.                                                               *)
(***************************************************************************)
C22_Malformed(token) ==
    \/ token.t # "string"
    \/ token.s = <<>>
    \/ \E i \in 1..Len(token.s) : ~IsHex(token.s[i])

C22_MalformedNeverVerifies ==
    [][\A s \in ConnIds :
        AdmitStep(s) =>
            /\ ~C22_Malformed(conn'[s].token)
            /\ Len(HexDecode(rooms[conn'[s].chatId].serverHash.s)) = TagLen]_vars

(***************************************************************************)
(* C23.  Reconciliation precedes registration: in the join of connection   *)
(* B, every connection A that B's handler disconnects is closed, and out   *)
(* of the broadcast set, before B is added to the set.  So A's user_left   *)
(* is never delivered to B; it goes to the other members in B's join step, *)
(* and B's user_joined is broadcast only in the later step that ends B's   *)
(* handler, so every other member gets A's user_left before B's            *)
(* user_joined.                                                            *)
(***************************************************************************)
\* B's join step closes A.
C23_ForcedBy(b, a) ==
    JoinStep(b) /\ a # b /\ conn[a].connected /\ ~conn'[a].connected

C23_LeftOf(a, packets) ==
    {i \in 1..Len(packets) : packets[i].e.ev = "user_left" /\ packets[i].e.id = a}

C23_JoinedOf(b, packets) ==
    {i \in 1..Len(packets) : packets[i].e.ev = "user_joined" /\ packets[i].e.id = b}

C23_ZombieLeavesFirst ==
    \A b, a \in ConnIds :
        C23_ForcedBy(b, a) =>
            /\ a \notin Range(members'[conn[b].chatId])
            /\ \A i \in C23_LeftOf(a, sent') : sent'[i].to # b
            /\ conn[a].pc = "joined" =>
                  \A m \in Range(members'[conn[b].chatId]) \ {b} :
                      InNsp(conn', m) =>
                          Cardinality({i \in C23_LeftOf(a, sent') : sent'[i].to = m}) = 1
            /\ C23_JoinedOf(b, sent') = {}

C23_JoinAnnouncedAtEnd ==
    \A b \in ConnIds : C23_JoinedOf(b, sent') # {} => FinishStep(b)

C23_ReconciledBeforeRegistered ==
    [][C23_ZombieLeavesFirst /\ C23_JoinAnnouncedAtEnd]_vars

\* B's join step has just closed a joined connection A of B's client: B is
\* in the broadcast set and A is not, and the one packet written is A's
\* user_left, to the member that is neither.
C23_Witness ==
    \E a, b, m \in ConnIds :
        /\ conn[b].pc = "await2" /\ conn[b].connected
        /\ conn[b].clientId = "c1"
        /\ conn[a].pc = "closed"
        /\ m \notin {a, b} /\ conn[m].pc = "joined"
        /\ members[conn[b].chatId] = <<m, b>>
        /\ C23_LeftOf(a, sent) = {1}
        /\ Len(sent) = 1 /\ sent[1].to = m

(***************************************************************************)
(* C24.  When a connection completes its join, every other live member of  *)
(* its room is sent exactly one user_joined carrying the joiner's          *)
(* connection id and encryptedUsername, and the joiner is never sent its   *)
(* own user_joined.  A user_joined is written in no other step.            *)
(***************************************************************************)
C24_Announces(i, s) ==
    /\ sent'[i].e.ev = "user_joined"
    /\ sent'[i].e.id = s
    /\ sent'[i].e.encryptedUsername = conn[s].encryptedUsername

C24_OthersToldOnce ==
    \A s \in ConnIds :
        FinishStep(s) =>
            /\ \A m \in Range(members'[conn[s].chatId]) \ {s} :
                  InNsp(conn', m) =>
                      Cardinality({i \in 1..Len(sent') :
                                      sent'[i].to = m /\ C24_Announces(i, s)}) = 1
            /\ \A i \in 1..Len(sent') :
                  sent'[i].e.ev = "user_joined" =>
                      /\ C24_Announces(i, s)
                      /\ sent'[i].to # s
                      /\ sent'[i].to \in Range(members'[conn[s].chatId])

C24_OnlyOnCompletion ==
    \A i \in 1..Len(sent') :
        sent'[i].e.ev = "user_joined" => \E s \in ConnIds : FinishStep(s)

C24_JoinBroadcast == [][C24_OthersToldOnce /\ C24_OnlyOnCompletion]_vars

\* The third connection of a room has just completed its join: it was sent
\* room_users, and the two members before it a user_joined each.
C24_Witness ==
    \E s \in ConnIds :
        /\ conn[s].pc = "joined"
        /\ Len(members[conn[s].chatId]) = 3
        /\ Len(sent) = 3
        /\ sent[1].to = s /\ sent[1].e.ev = "room_users"
        /\ \A i \in {2, 3} :
              /\ sent[i].e = Event("user_joined", s, GoodName, "", <<>>, NoPayload)
              /\ sent[i].to # s
        /\ sent[2].to # sent[3].to

(***************************************************************************)
(* C25.  The admission gate touches no room-level state: whether it        *)
(* accepts or refuses, the registry (every room's lastActive included) and *)
(* every broadcast set are the same before and after it runs.  Nor does    *)
(* the start of the handler change them: a connection's room is first      *)
(* touched, and the connection first a member, in its join step.           *)
(***************************************************************************)
C25_StartStep(s) == conn[s].pc = "admitted" /\ conn'[s].pc = "await1"

C25_GateFrame ==
    \A s \in ConnIds :
        AdmitStep(s) \/ RefuseStep(s) \/ C25_StartStep(s) =>
            rooms' = rooms /\ members' = members

C25_FirstChangeInJoin ==
    \A s \in ConnIds :
        /\ (\E r \in RoomIds : s \in Range(members'[r]) \ Range(members[r])) => JoinStep(s)
        /\ JoinStep(s) /\ conn[s].chatId \in DOMAIN rooms =>
              rooms'[conn[s].chatId].lastActive = now

C25_GateTouchesNoRoom == [][C25_GateFrame /\ C25_FirstChangeInJoin]_vars

\* The gate has just refused the second connection, the first is admitted
\* and has not joined: the room is as it was created, a clock reading ago,
\* and has no member.
C25_Witness ==
    /\ conn[1].pc = "admitted"
    /\ refused.id = 2 /\ refused.chatId = conn[1].chatId
    /\ conn[1].chatId \in DOMAIN rooms
    /\ rooms[conn[1].chatId].lastActive < now
    /\ members[conn[1].chatId] = <<>>

(***************************************************************************)
(* C26.  Zombie reconciliation for a connection joining room R disconnects *)
(* only other connections that are members of R and share its clientId:    *)
(* never the joining connection itself, a member of R with another         *)
(* clientId, or a connection of another room, whatever its clientId.       *)
(***************************************************************************)
C26_OnlyOwnZombies ==
    \A b \in ConnIds :
        JoinStep(b) =>
            /\ conn'[b].connected = conn[b].connected
            /\ \A a \in ConnIds :
                  conn[a].connected /\ ~conn'[a].connected =>
                      /\ a # b
                      /\ a \in Range(members[conn[b].chatId])
                      /\ conn[a].chatId = conn[b].chatId
                      /\ conn[a].clientId = conn[b].clientId

C26_ReconcileIsScoped == [][C26_OnlyOwnZombies]_vars

\* B's join step has just closed the zombie of its client: the zombie's
\* user_left went to the member of the room that has another clientId, and
\* that member is still connected and in the broadcast set.
C26_Witness ==
    \E a, b, d \in ConnIds :
        /\ conn[b].pc = "await2" /\ conn[b].connected
        /\ conn[d].pc = "joined" /\ conn[d].connected
        /\ conn[d].chatId = conn[b].chatId
        /\ conn[d].clientId # conn[b].clientId
        /\ conn[a].pc = "closed"
        /\ {d, b} \subseteq Range(members[conn[b].chatId])
        /\ sent = <<Packet(d, Event("user_left", a, GoodName, "", <<>>, NoPayload))>>

(***************************************************************************)
(* C27.  A msg is relayed only for a connection that has completed its     *)
(* join: a msg that arrives from a connection that is admitted but whose   *)
(* handler is still suspended (the msg listener is not registered yet) is  *)
(* delivered to no one and does not update lastActive.                     *)
(***************************************************************************)
C27_Suspended(s) == conn[s].connected /\ conn[s].pc \in {"await1", "await2"}

C27_EarlyMsgDropped ==
    \A s \in ConnIds :
        (\E payload \in Payloads : MsgOnWire(s, payload)) /\ C27_Suspended(s) =>
            /\ sent' = <<>>
            /\ wire'.inbox = wire.inbox
            /\ rooms' = rooms
            /\ conn' = conn /\ members' = members

C27_RelayedOnlyFromJoined ==
    \A i \in 1..Len(sent') :
        sent'[i].e.ev = "msg" =>
            \E s \in ConnIds \ {sent'[i].to} :
                /\ conn[s].pc = "joined" /\ conn[s].connected
                /\ sent'[i].to \in Range(members[conn[s].chatId])

C27_TouchedOnlyByJoinOrRelay ==
    \A r \in DOMAIN rooms \cap DOMAIN rooms' :
        rooms'[r].lastActive # rooms[r].lastActive =>
            \E s \in ConnIds :
                /\ conn[s].chatId = r
                /\ JoinStep(s) \/ (conn[s].pc = "joined" /\ conn[s].connected
                                   /\ Len(wire'.arrived) = Len(wire.arrived) + 1)

C27_NoRelayBeforeJoined ==
    [][C27_EarlyMsgDropped /\ C27_RelayedOnlyFromJoined
         /\ C27_TouchedOnlyByJoinOrRelay]_vars

\* No connection has finished its join and none has closed; two are in the
\* broadcast set, suspended at the second await.  A msg has arrived: it was
\* written to no socket, and the room's lastActive is older than the clock.
C27_Witness ==
    /\ \A s \in ConnIds : conn[s].pc \in {"new", "admitted", "await1", "await2"}
    /\ \A s \in ConnIds : conn[s].pc # "new" => conn[s].connected
    /\ \E s, d \in ConnIds :
          /\ s # d
          /\ conn[s].pc = "await2" /\ conn[d].pc = "await2"
          /\ {s, d} \subseteq Range(members[1])
    /\ Len(wire.arrived) = 1
    /\ \A m \in ConnIds : wire.inbox[m] = <<>>
    /\ 1 \in DOMAIN rooms /\ rooms[1].lastActive < now

(***************************************************************************)
(* C28.  Rooms are isolated and a connection's room binding never changes: *)
(* every msg, user_joined, user_left and room_users entry that originates  *)
(* from a connection bound to room R is delivered only to connections that *)
(* are members of R, and no connection is ever a member of a room other    *)
(* than the one it was admitted to.                                        *)
(***************************************************************************)
\* The socket is, or in this step was, in the broadcast set of room r.
C28_MemberOf(m, r) == m \in Range(members[r]) \cup Range(members'[r])

C28_BindingKept ==
    \A s \in ConnIds :
        /\ conn[s].pc \notin {"new", "closed"} /\ conn'[s].pc # "closed" =>
              conn'[s].chatId = conn[s].chatId
        /\ \A r \in RoomIds : s \in Range(members'[r]) => conn'[s].chatId = r

C28_NoticesStayInRoom ==
    \A i \in 1..Len(sent') :
        sent'[i].e.ev \in {"user_joined", "user_left"} =>
            /\ C28_MemberOf(sent'[i].to, conn[sent'[i].e.id].chatId)
            /\ conn[sent'[i].to].chatId = conn[sent'[i].e.id].chatId

C28_MsgsStayInRoom ==
    \A s \in ConnIds, payload \in Payloads :
        Msg(s, payload) =>
            \A i \in 1..Len(sent') :
                /\ sent'[i].e.ev = "msg"
                /\ sent'[i].to \in Range(members[conn[s].chatId])
                /\ conn[sent'[i].to].chatId = conn[s].chatId

\* room_users lists the scan taken in the join step, which holds only
\* sockets of the room's broadcast set.
C28_UsersOfTheRoom ==
    \A s \in ConnIds :
        /\ JoinStep(s) =>
              \A i \in 1..Len(conn'[s].scan) :
                  /\ conn'[s].scan[i].id \in Range(members'[conn[s].chatId])
                  /\ conn'[conn'[s].scan[i].id].chatId = conn[s].chatId
        /\ \A i \in 1..Len(sent') :
              sent'[i].e.ev = "room_users" =>
                  /\ sent'[i].to = s => FinishStep(s)
                  /\ sent'[i].to = s =>
                        {sent'[i].e.users[k].id : k \in 1..Len(sent'[i].e.users)}
                            = {conn[s].scan[k].id : k \in 1..Len(conn[s].scan)}

C28_RoomsIsolated ==
    [][C28_BindingKept /\ C28_NoticesStayInRoom /\ C28_MsgsStayInRoom
         /\ C28_UsersOfTheRoom]_vars

\* Both rooms have joined members; a msg of a member of one room has just
\* been relayed to the other member of that room and to nobody else.
C28_Witness ==
    \E s, d, c \in ConnIds :
        /\ s # d
        /\ conn[s].pc = "joined" /\ conn[d].pc = "joined" /\ conn[c].pc = "joined"
        /\ conn[s].connected /\ conn[d].connected /\ conn[c].connected
        /\ conn[s].chatId = conn[d].chatId
        /\ conn[c].chatId # conn[s].chatId
        /\ c \in Range(members[conn[c].chatId])
        /\ Len(sent) = 1 /\ sent[1].to = d /\ sent[1].e.ev = "msg"

(***************************************************************************)
(* C29.  Eviction depends only on lastActive and acts only on the          *)
(* registry: a sweep never disconnects a connection or changes a broadcast *)
(* set, so a room can be evicted while connections are joined to it.       *)
(* Afterwards those connections remain members, their messages are still   *)
(* relayed to each other, and neither relay nor join activity re-creates   *)
(* the evicted room record.                                                *)
(***************************************************************************)
C29_Evicts == DOMAIN rooms' # DOMAIN rooms /\ DOMAIN rooms' \subseteq DOMAIN rooms

C29_SweepFrame ==
    /\ Sweep =>
          \A id \in DOMAIN rooms :
              id \in DOMAIN rooms' <=> now - rooms[id].lastActive <= InactivityLimit
    /\ C29_Evicts => conn' = conn /\ members' = members /\ sent' = <<>>

\* The other members of the sender's room whose transport is open.
C29_Peers(s) ==
    {m \in Range(members[conn[s].chatId]) \ {s} : conn[m].connected}

C29_RelayWithoutRecord ==
    \A s \in ConnIds, payload \in Payloads :
        /\ Msg(s, payload)
        /\ conn[s].pc = "joined"
        /\ conn[s].chatId \notin DOMAIN rooms
        =>  /\ \A m \in C29_Peers(s) :
                  \E i \in 1..Len(sent') :
                      sent'[i].to = m /\ sent'[i].e.ev = "msg"
                                      /\ sent'[i].e.payload = payload
            /\ members' = members
            /\ rooms' = rooms

\* A record enters the registry only with the answer of a creation request.
C29_OnlyCreationAdds ==
    \A id \in DOMAIN rooms' \ DOMAIN rooms : http'.status = 200 /\ http'.chatId = id

C29_JoinWithoutRecord ==
    \A s \in ConnIds :
        JoinStep(s) /\ conn[s].chatId \notin DOMAIN rooms =>
            /\ rooms' = rooms
            /\ conn[s].connected => s \in Range(members'[conn[s].chatId])

C29_EvictionLeavesSessions ==
    [][C29_SweepFrame /\ C29_RelayWithoutRecord /\ C29_OnlyCreationAdds
         /\ C29_JoinWithoutRecord]_vars

\* The room has been evicted with two connections joined to it: both are
\* still members, and a msg of one has just been relayed to the other.
C29_Witness ==
    \E s, d \in ConnIds :
        /\ s # d
        /\ conn[s].pc = "joined" /\ conn[d].pc = "joined"
        /\ conn[s].connected /\ conn[d].connected
        /\ conn[s].chatId \notin DOMAIN rooms
        /\ {s, d} \subseteq Range(members[conn[s].chatId])
        /\ sent = <<Packet(d, Event("msg", 0, JsUndefined, "", <<>>,
                                    [ciphertext |-> "c", iv |-> "i", senderId |-> 0]))>>

(***************************************************************************)
(* C30.  Credential checking takes precedence over username validation:    *)
(* an attempt that fails the credential check is refused with              *)
(* "Authentication failed" whatever its encryptedUsername, and "Invalid    *)
(* encrypted username" is the answer exactly when the room exists, the     *)
(* token verifies and the encryptedUsername is invalid.  So a caller       *)
(* without a token that verifies never sees the username error.            *)
(***************************************************************************)
C30_UsernameOk(v) == v.t = "string" /\ Len(v.s) >= 1 /\ Len(v.s) <= 256

C30_Answer(chatId, token, encryptedUsername) ==
    IF ~Matches(chatId, token) THEN "Authentication failed"
    ELSE IF ~C30_UsernameOk(encryptedUsername) THEN "Invalid encrypted username"
    ELSE ""

C30_Decision ==
    \A s \in ConnIds :
        /\ RefuseStep(s) =>
              /\ refused'.id = s
              /\ refused'.err =
                    C30_Answer(refused'.chatId, refused'.token,
                               refused'.encryptedUsername)
        /\ AdmitStep(s) =>
              /\ refused' = NoRefusal
              /\ C30_Answer(conn'[s].chatId, conn'[s].token,
                            conn'[s].encryptedUsername) = ""

C30_CredentialsBeforeUsername == [][C30_Decision]_vars

\* A handshake to an existing room with another room's token and a
\* username that is too long has just been refused: authentication failed.
C30_Witness ==
    /\ refused.id # 0
    /\ refused.chatId \in DOMAIN rooms
    /\ refused.token.t = "string"
    /\ rooms[refused.chatId].serverHash # ServerHashOf(refused.token)
    /\ refused.encryptedUsername = LongName
    /\ refused.err = "Authentication failed"

(***************************************************************************)
(* C31.  No member is missed under concurrent joins: two connections that  *)
(* are members of the same room at the same time, both having completed    *)
(* their joins, have each been told about the other at least once, in the  *)
(* room_users snapshot or by a user_joined event, in every interleaving of *)
(* the two handlers.                                                       *)
(***************************************************************************)
C31_Settled(s) == conn[s].pc = "joined" /\ conn[s].connected

C31_NoMemberMissed ==
    \A a, b \in ConnIds :
        /\ a # b
        /\ C31_Settled(a) /\ C31_Settled(b)
        /\ \E r \in RoomIds : {a, b} \subseteq Range(members[r])
        => b \in told[a] /\ a \in told[b]

\* Two joins that overlapped: a has just finished, its room_users snapshot
\* was taken before b joined and does not list b, who is a member and has
\* finished before; a heard of b by b's user_joined alone.
C31_Witness ==
    \E a, b \in ConnIds :
        /\ a # b
        /\ C31_Settled(a) /\ C31_Settled(b)
        /\ members[conn[a].chatId] = <<a, b>>
        /\ Len(sent) = 2
        /\ sent[1].to = a /\ sent[1].e.ev = "room_users"
        /\ Len(sent[1].e.users) = 1 /\ sent[1].e.users[1].id = a
        /\ sent[2].to = b /\ sent[2].e.ev = "user_joined" /\ sent[2].e.id = a
        /\ b \in told[a]

(***************************************************************************)
(* C32.  Room creation validates only the type and the length of           *)
(* serverHash, so a room whose serverHash does not decode from hex to      *)
(* exactly the 32 bytes of a tag is created and exists in the registry,    *)
(* but can never admit a connection: every admission attempt to it, with   *)
(* any token, is refused with "Authentication failed" for as long as the   *)
(* room is in the registry.                                                *)
(***************************************************************************)
C32_Dud(serverHash) ==
    /\ serverHash.t = "string"
    /\ Len(serverHash.s) >= 1 /\ Len(serverHash.s) <= 128
    /\ Len(HexDecode(serverHash.s)) # 32

C32_DudIsCreated ==
    (http'.status # 0 /\ C32_Dud(http'.req)) =>
        \/ /\ http'.status = 200
           /\ http'.chatId \notin DOMAIN rooms
           /\ http'.chatId \in DOMAIN rooms'
           /\ rooms'[http'.chatId].serverHash = http'.req
        \/ /\ http'.status = 400
           /\ http'.body = "Room already exists"
           /\ rooms' = rooms

C32_DudAdmitsNobody ==
    \A s \in ConnIds :
        /\ AdmitStep(s) => ~C32_Dud(rooms[conn'[s].chatId].serverHash)
        /\ RefuseStep(s) /\ refused'.chatId \in DOMAIN rooms
                         /\ C32_Dud(rooms[refused'.chatId].serverHash) =>
              refused'.err = "Authentication failed"

C32_DudRoomIsShut == [][C32_DudIsCreated /\ C32_DudAdmitsNobody]_vars

\* A room whose stored hash is a single byte is in the registry, and a
\* handshake to it with a token that deriveAuthKeys makes and a valid
\* username has just been refused.
C32_Witness ==
    /\ 1 \in DOMAIN rooms
    /\ rooms[1].serverHash = JsStr(<<"0", "0">>)
    /\ refused.id # 0 /\ refused.chatId = 1
    /\ refused.token = deriveAuthKeys(<<"0", "a">>).token
    /\ refused.encryptedUsername = GoodName
    /\ refused.err = "Authentication failed"

(***************************************************************************)
(* C33.  The sweep is idempotent: running it twice with the same value of  *)
(* now leaves the registry in the state that running it once leaves.       *)
(***************************************************************************)
C33_SecondSweepKeeps == Sweep => Swept(rooms', now') = rooms'

C33_SameAsOnce == Swept(Swept(rooms, now), now) = Swept(rooms, now)

C33_SweepIdempotent == [][C33_SecondSweepKeeps /\ C33_SameAsOnce]_vars

\* The registry holds a room that has expired and a room that has not: one
\* sweep at this time deletes the first and keeps the second, and a second
\* sweep at this time deletes nothing more.
C33_Witness ==
    /\ DOMAIN rooms = {1, 2}
    /\ now - rooms[1].lastActive > InactivityLimit
    /\ now - rooms[2].lastActive <= InactivityLimit
    /\ DOMAIN Swept(rooms, now) = {2}
    /\ Swept(Swept(rooms, now), now) = Swept(rooms, now)
=============================================================================
